---------------------------- MODULE Spec2Model ----------------------------
(***************************************************************************)
(* A model of the TSPLIB loader of src/src/loaders/tsplib_loader.h: the    *)
(* constructor tsplib_loader(std::string input), which parses the header   *)
(* keys, captures the data section with a regular expression, and fills    *)
(* the distance matrix; and get_route, which renders a tour.               *)
(*                                                                         *)
(* Representation.                                                         *)
(*  - The input text is a record of what the constructor's regular         *)
(*    expressions look at: the text after each header key, and the         *)
(*    sequence of whitespace-separated tokens after each section keyword.  *)
(*  - A token of a data section is a natural number (a run of digits) or   *)
(*    Junk (a token that [0-9]+ does not match).                           *)
(*  - A double is a fixed-point number with Scale units per 1.0; the       *)
(*    coordinates are integers, so the only doubles that are not           *)
(*    integers are square roots, held rounded down to 1/Scale.             *)
(*  - A std::string built by get_route is a sequence of tokens: each       *)
(*    punctuation character is a token of its own, so pop_back (which      *)
(*    removes one character) removes the last token whenever the string    *)
(*    ends in punctuation, which every string get_route pops does.         *)
(***************************************************************************)
EXTENDS Integers, Sequences, FiniteSets, TLC

VARIABLES
  input,          \* the constructor's argument
  pc,             \* "start" | "built" (constructor returned) | "failed" (it threw)
  error,          \* the custom_exception message, "" when none
  _dimension,     \* std::size_t _dimension
  _ewt,           \* EWT _ewt
  _ewf,           \* EWF _ewf
  _data_section,  \* the regex capture, as its sequence of numbers
  data_pos,       \* how many numbers the istringstream has handed out
  _matrix,        \* matrix<distance_t> _matrix
  _nodes,         \* std::vector<Node> _nodes
  tour,           \* the argument of the last get_route call
  route           \* the std::string the last get_route call returned

vars == <<input, pc, error, _dimension, _ewt, _ewf, _data_section, data_pos,
          _matrix, _nodes, tour, route>>

----------------------------------------------------------------------------
(* Bounds of the model. *)

MaxDim == 3       \* DIMENSION values 0..MaxDim
MaxData == 5      \* tokens after EDGE_WEIGHT_SECTION
MaxNodes == 3     \* node lines after NODE_COORD_SECTION (sample points)
MaxCoord == 6     \* coordinates 0..MaxCoord of the two-node grid instances
MaxTour == 3      \* length of the tour handed to get_route
Scale == 1000     \* fixed-point units per 1.0 of a double

(* Edge weights and points the inputs are drawn from. *)
Weights == {10, 15, 20}
SamplePoints == {<<0, 0>>, <<3, 4>>, <<6, 0>>}
(* GEO instances lie on one meridian at whole degrees, where acos(cos(d)) = d
   lets the distance be computed without trigonometry. *)
GeoPoints == {<<0, 0>>, <<1, 0>>, <<2, 0>>}

Junk == 0 - 1
NoKey == "<absent>"          \* a header key that is not in the input
NoSection == [present |-> FALSE, body |-> <<>>]
Section(b) == [present |-> TRUE, body |-> b]

Abs(a) == IF a < 0 THEN 0 - a ELSE a
Idx(n) == 0 .. (n - 1)

----------------------------------------------------------------------------
(* Header keys: the text after "KEY :" up to the next whitespace. *)

ExplicitType == "EXPLICIT"
CoordTypes == {"EUC_2D", "CEIL_2D", "GEO", "ATT"}
SupportedTypes == {ExplicitType} \cup CoordTypes
SupportedFormats == {"FULL_MATRIX", "UPPER_ROW", "UPPER_DIAG_ROW", "LOWER_DIAG_ROW"}
MirrorFormats == {"UPPER_ROW", "UPPER_DIAG_ROW", "LOWER_DIAG_ROW"}

(* DIMENSION[[:space:]]*:[[:space:]]*([0-9]+)[[:space:]] : the key's text is
   absent, a word, or a run of digits with value n. *)
DimRgxMatches(d) == d.kind = "digits"

(* EDGE_WEIGHT_TYPE ... ([A-Z]+(_2D)?)[[:space:]] : of the texts the model
   draws, the ones the expression matches. "MAN_2D" matches and is not
   supported; "euc" and "EUC_3D" do not match. *)
EwtRgxMatches(t) == t \in SupportedTypes \cup {"MAN_2D"}

(* EDGE_WEIGHT_FORMAT ... ([A-Z]+(_[A-Z]+){1,2})[[:space:]] : "LOWER_ROW"
   matches and is not supported; "FUNCTION" has no underscore and does not
   match. *)
EwfRgxMatches(f) == f \in SupportedFormats \cup {"LOWER_ROW"}

(* EDGE_WEIGHT_SECTION[[:space:]]*(([0-9]+[[:space:]]+)+) : the capture is
   the longest run of numbers right after the keyword. *)
RECURSIVE NumberRun(_)
NumberRun(body) ==
  IF body = <<>> \/ Head(body) = Junk THEN <<>>
  ELSE <<Head(body)>> \o NumberRun(Tail(body))

(* NODE_COORD_SECTION[[:space:]]+(([0-9]+[[:space:]]+(coord[[:space:]]+){2})+) :
   the capture is the longest run of whole "index x y" lines; a line is a
   triple, and a line the expression does not match has Junk for an index. *)
RECURSIVE NodeRun(_)
NodeRun(lines) ==
  IF lines = <<>> \/ Head(lines)[1] = Junk THEN <<>>
  ELSE Head(lines) \o NodeRun(Tail(lines))

----------------------------------------------------------------------------
(* std::istringstream data(_data_section); data >> v. The capture always ends
   in whitespace, so a read past the last number fails in the stream's sentry
   and leaves v as it was; every later read fails the same way. *)

Stream(buf) == [buf |-> buf, pos |-> 0, fail |-> FALSE]

Extract(st, old) ==
  IF st.fail \/ st.pos >= Len(st.buf)
  THEN [st |-> [st EXCEPT !.fail = TRUE], v |-> old]
  ELSE [st |-> [st EXCEPT !.pos = @ + 1], v |-> st.buf[st.pos + 1]]

----------------------------------------------------------------------------
(* matrix<distance_t>: a function on Idx(n) \X Idx(n). *)

(* matrix<distance_t> m {_dimension}: structures/matrix.h is not among the
   sources; its entries are taken to start at 0. *)
MatrixInit(n) == [p \in Idx(n) \X Idx(n) |-> 0]

Store(m, i, j, v) == [m EXCEPT ![<<i, j>>] = v]

Mirror_OneSided(m, i, j, v) == [m EXCEPT ![<<i, j>>] = v]

(* m[i][j] = current_value; m[j][i] = current_value; *)
Mirror(m, i, j, v) == [m EXCEPT ![<<i, j>>] = v, ![<<j, i>>] = v]

(* for(i = 0; i < _dimension; ++i) m[i][i] = 0; *)
ZeroDiagonal(m) == [p \in DOMAIN m |-> IF p[1] = p[2] THEN 0 ELSE m[p]]

----------------------------------------------------------------------------
(* The loops of the constructor, as the sequence of <<i, j>> they visit. *)

(* for(j = from; j < to; ++j) *)
RECURSIVE Row(_, _, _)
Row(i, from, to) ==
  IF from >= to THEN <<>> ELSE <<<<i, from>>>> \o Row(i, from + 1, to)

RECURSIVE FullMatrixLoop(_, _)
FullMatrixLoop(i, n) ==
  IF i >= n THEN <<>> ELSE Row(i, 0, n) \o FullMatrixLoop(i + 1, n)

(* std::size_t arithmetic wraps. The width is 64 bits in the build; the model
   keeps 30, which TLC's integers hold: the only value that wraps is 0 - 1. *)
SizeModulus == 2 ^ 30

(* The bound of "i < _dimension - 1". *)
UpperRowBound(n) == (n + SizeModulus - 1) % SizeModulus

UpperRowFirstJ_Diag(i) == i

(* "j = i + 1" *)
UpperRowFirstJ(i) == i + 1

(* Rows i >= n have an empty inner loop (j starts above n), so the walk stops
   there: under a wrapped bound the remaining iterations visit nothing. *)
RECURSIVE UpperRowLoop(_, _)
UpperRowLoop(i, n) ==
  IF i >= UpperRowBound(n) \/ i >= n THEN <<>>
  ELSE Row(i, UpperRowFirstJ(i), n) \o UpperRowLoop(i + 1, n)

RECURSIVE UpperDiagRowLoop(_, _)
UpperDiagRowLoop(i, n) ==
  IF i >= n THEN <<>> ELSE Row(i, i, n) \o UpperDiagRowLoop(i + 1, n)

RECURSIVE LowerDiagRowLoop(_, _)
LowerDiagRowLoop(i, n) ==
  IF i >= n THEN <<>> ELSE Row(i, 0, i + 1) \o LowerDiagRowLoop(i + 1, n)

(* for(i = 0; i < _dimension; ++i) for(j = i + 1; j < _dimension; ++j) *)
RECURSIVE CoordLoop(_, _)
CoordLoop(i, n) ==
  IF i >= n THEN <<>> ELSE Row(i, i + 1, n) \o CoordLoop(i + 1, n)

(* data >> m[i][j]; over the FULL_MATRIX loop. *)
RECURSIVE ReadFull(_, _, _, _)
ReadFull(order, k, st, m) ==
  IF k > Len(order) THEN [m |-> m, st |-> st]
  ELSE LET i == order[k][1]
           j == order[k][2]
           r == Extract(st, m[<<i, j>>])
       IN  ReadFull(order, k + 1, r.st, Store(m, i, j, r.v))

(* data >> current_value; m[i][j] = current_value; m[j][i] = current_value; *)
RECURSIVE ReadMirrored(_, _, _, _, _)
ReadMirrored(order, k, st, m, current_value) ==
  IF k > Len(order) THEN [m |-> m, st |-> st]
  ELSE LET i == order[k][1]
           j == order[k][2]
           r == Extract(st, current_value)
       IN  ReadMirrored(order, k + 1, r.st, Mirror(m, i, j, r.v), r.v)

(* switch (_ewf): the four cases, each ending with the diagonal set to zero.
   uninit is what the uninitialized current_value holds. *)
FillExplicit(ewf, n, section, uninit) ==
  LET st == Stream(section)
      m0 == MatrixInit(n)
      r  == CASE ewf = "FULL_MATRIX" -> ReadFull(FullMatrixLoop(0, n), 1, st, m0)
              [] ewf = "UPPER_ROW" -> ReadMirrored(UpperRowLoop(0, n), 1, st, m0, uninit)
              [] ewf = "UPPER_DIAG_ROW" -> ReadMirrored(UpperDiagRowLoop(0, n), 1, st, m0, uninit)
              [] ewf = "LOWER_DIAG_ROW" -> ReadMirrored(LowerDiagRowLoop(0, n), 1, st, m0, uninit)
  IN  [m |-> ZeroDiagonal(r.m), pos |-> r.st.pos, nodes |-> <<>>]

----------------------------------------------------------------------------
(* Doubles, in fixed point: x stands for x / Scale. *)

RECURSIVE Above(_, _)
Above(n, h) == IF h * h > n THEN h ELSE Above(n, 2 * h)

(* lo * lo <= n < hi * hi *)
RECURSIVE IsqrtBetween(_, _, _)
IsqrtBetween(n, lo, hi) ==
  IF hi - lo <= 1 THEN lo
  ELSE LET mid == (lo + hi) \div 2
       IN  IF mid * mid <= n THEN IsqrtBetween(n, mid, hi)
           ELSE IsqrtBetween(n, lo, mid)

Isqrt(n) == IsqrtBetween(n, 0, Above(n, 1))

(* std::sqrt(num / den) for integers num >= 0, den > 0: the root rounded down
   to 1/Scale. The root of an integer is an integer or irrational, and in
   the range of the model it lies further than 1/Scale from every integer
   and half-integer it is not equal to, so the comparisons and roundings
   below come out as they do on the binary64 value. *)
SqrtFx(num, den) == Isqrt((num * Scale * Scale) \div den)

(* (int) x: the cast truncates toward zero. *)
TruncToInt(num, den) ==
  IF num >= 0 THEN num \div den ELSE 0 - ((0 - num) \div den)

nint_NoHalf(x) == TruncToInt(2 * x, 2 * Scale)

(* return (int) (x + 0.5); *)
nint(x) == TruncToInt(2 * x + Scale, 2 * Scale)

(* std::ceil(x) *)
CeilFx(x) == 0 - ((0 - x) \div Scale)

Node(index, x, y) == [index |-> index, x |-> x, y |-> y]

SquaredLength(i, j) ==
  LET xd == i.x - j.x
      yd == i.y - j.y
  IN  xd * xd + yd * yd

euc_2D(i, j) == nint(SqrtFx(SquaredLength(i, j), 1))

ceil_2D(i, j) == CeilFx(SqrtFx(SquaredLength(i, j), 1))

att_NoCorrection(i, j) == nint(SqrtFx(SquaredLength(i, j), 10))

att(i, j) ==
  LET r == SqrtFx(SquaredLength(i, j), 10)
      t == nint(r)
  IN  IF t * Scale < r THEN t + 1 ELSE t

(* static double constexpr PI = 3.141592, in millionths. *)
PI == 3141592
(* The radius 6378.388 of geo: its kilometres and its metres. *)
GeoRadiusKm == 6378
GeoRadiusM == 388

(* PI * (deg + 5.0 * min / 3.0) / 180.0 for a whole number of degrees
   (min = 0), in millionths of a radian. *)
GeoRadians(c) == (PI * c) \div 180

(* geo for two nodes of equal longitude: q1 = 1, so the argument of acos is
   q2 = cos(lat_i - lat_j) and the arc is |lat_i - lat_j|;
   (int) (6378.388 * arc + 1.0). *)
geo(i, j) ==
  LET arc == Abs(GeoRadians(i.x) - GeoRadians(j.x))
  IN  (GeoRadiusKm * arc + (GeoRadiusM * arc) \div 1000) \div 1000000 + 1

(* The function dist_f_ptr points to, by _ewt. *)
Dist(ewt, i, j) ==
  CASE ewt = "EUC_2D" -> euc_2D(i, j)
    [] ewt = "CEIL_2D" -> ceil_2D(i, j)
    [] ewt = "GEO" -> geo(i, j)
    [] ewt = "ATT" -> att(i, j)

(* data >> index >> x >> y; _nodes.push_back({index, x, y}); for each of the
   _dimension nodes. uninit[k] is what the uninitialized index, x and y of
   the k-th iteration hold. *)
RECURSIVE ReadNodes(_, _, _, _, _)
ReadNodes(k, n, st, nodes, uninit) ==
  IF k > n THEN [nodes |-> nodes, st |-> st]
  ELSE LET a == Extract(st, uninit[k].index)
           b == Extract(a.st, uninit[k].x)
           c == Extract(b.st, uninit[k].y)
       IN  ReadNodes(k + 1, n, c.st, Append(nodes, Node(a.v, b.v, c.v)), uninit)

(* current_value = dist_f_ptr(_nodes[i], _nodes[j]); m[i][j] = current_value;
   m[j][i] = current_value; *)
RECURSIVE FillDistances(_, _, _, _, _)
FillDistances(order, k, m, nodes, ewt) ==
  IF k > Len(order) THEN m
  ELSE LET i == order[k][1]
           j == order[k][2]
       IN  FillDistances(order, k + 1,
                         Mirror(m, i, j, Dist(ewt, nodes[i + 1], nodes[j + 1])),
                         nodes, ewt)

(* The else branch of the constructor: nodes, then the symmetric matrix with
   m[i][i] = 0. *)
FillCoord(ewt, n, section, uninit) ==
  LET r == ReadNodes(1, n, Stream(section), <<>>, uninit)
      m == FillDistances(CoordLoop(0, n), 1, MatrixInit(n), r.nodes, ewt)
  IN  [m |-> ZeroDiagonal(m), pos |-> r.st.pos, nodes |-> r.nodes]

----------------------------------------------------------------------------
(* The constructor, steps 1 to 3: the header keys and the data section. *)

Throw(msg) ==
  [ok |-> FALSE, error |-> msg, dim |-> 0, ewt |-> "NONE", ewf |-> "NONE",
   section |-> <<>>]

FormatRequired_Always(ewt) == TRUE

(* "if(_ewt == EWT::EXPLICIT)" around the EDGE_WEIGHT_FORMAT key. *)
FormatRequired(ewt) == ewt = ExplicitType

(* The capture of the section the type asks for; empty when the expression
   does not match (no keyword, or no number right after it). *)
DataSection(in) ==
  IF in.ewt = ExplicitType
  THEN IF in.ews.present THEN NumberRun(in.ews.body) ELSE <<>>
  ELSE IF in.ncs.present THEN NodeRun(in.ncs.body) ELSE <<>>

ParseHeader(in) ==
  IF ~DimRgxMatches(in.dim)
  THEN Throw("incorrect \"DIMENSION\" key.")
  ELSE IF ~EwtRgxMatches(in.ewt)
  THEN Throw("incorrect \"EDGE_WEIGHT_TYPE\".")
  ELSE IF in.ewt \notin SupportedTypes
  THEN Throw("unsupported \"EDGE_WEIGHT_TYPE\" value: " \o in.ewt \o ".")
  ELSE IF FormatRequired(in.ewt) /\ ~EwfRgxMatches(in.ewf)
  THEN Throw("incorrect \"EDGE_WEIGHT_FORMAT\".")
  ELSE IF FormatRequired(in.ewt) /\ in.ewf \notin SupportedFormats
  THEN Throw("unsupported \"EDGE_WEIGHT_FORMAT\" value: " \o in.ewf \o ".")
  ELSE IF DataSection(in) = <<>>
  THEN Throw(IF in.ewt = ExplicitType
             THEN "incorrect \"EDGE_WEIGHT_SECTION\"."
             ELSE "incorrect \"NODE_COORD_SECTION\".")
  ELSE [ok |-> TRUE, error |-> "", dim |-> in.dim.n, ewt |-> in.ewt,
        ewf |-> IF FormatRequired(in.ewt) THEN in.ewf ELSE "NONE",
        section |-> DataSection(in)]

----------------------------------------------------------------------------
(* What the constructor reads without having written it. *)

Points(ewt) == IF ewt = "GEO" THEN GeoPoints ELSE SamplePoints

(* index, x and y of a loop iteration whose read fails: any values. *)
GarbageNodes(ewt) == {Node(k, p[1], p[2]) : k \in 0 .. 1, p \in Points(ewt)}

(* One choice per node whose read fails; the others are overwritten by the
   read and start at 0 here. *)
UninitNodes(ewt, n, section) ==
  LET read == Len(section) \div 3
  IN  {[k \in 1 .. n |-> IF k <= read THEN Node(0, 0, 0) ELSE g[k]] :
         g \in [(read + 1) .. n -> GarbageNodes(ewt)]}

(* current_value of the three mirrored cases is assigned by the first read,
   which succeeds: the capture holds at least one number. *)
UninitValue == 0

----------------------------------------------------------------------------
(* tsplib_loader(std::string input) *)

Construct ==
  /\ pc = "start"
  /\ LET h == ParseHeader(input)
     IN  IF ~h.ok
         THEN /\ pc' = "failed"
              /\ error' = h.error
              /\ UNCHANGED <<_dimension, _ewt, _ewf, _data_section, data_pos,
                             _matrix, _nodes>>
         ELSE \E u \in IF h.ewt = ExplicitType THEN {<<>>}
                        ELSE UninitNodes(h.ewt, h.dim, h.section) :
                LET b == IF h.ewt = ExplicitType
                         THEN FillExplicit(h.ewf, h.dim, h.section, UninitValue)
                         ELSE FillCoord(h.ewt, h.dim, h.section, u)
                IN  /\ pc' = "built"
                    /\ error' = ""
                    /\ _dimension' = h.dim
                    /\ _ewt' = h.ewt
                    /\ _ewf' = h.ewf
                    /\ _data_section' = h.section
                    /\ data_pos' = b.pos
                    /\ _matrix' = b.m
                    /\ _nodes' = b.nodes
  /\ UNCHANGED <<input, tour, route>>

----------------------------------------------------------------------------
(* get_route(const std::list<index_t>& tour) *)

(* std::to_string(double) prints six decimals; the coordinates are whole. *)
to_string_double(x) == ToString(x) \o ".000000"

(* std::to_string of an unsigned rank. *)
to_string(n) == ToString(n)

(* std::string::pop_back: the last character goes, whatever it is. *)
PopBack(s) == SubSeq(s, 1, Len(s) - 1)

RECURSIVE RouteSteps(_, _, _)
RouteSteps(t, k, nodes) ==
  IF k > Len(t) THEN <<>>
  ELSE <<"[", to_string_double(nodes[t[k] + 1].x), ",",
         to_string_double(nodes[t[k] + 1].y), "]", ",">>
       \o RouteSteps(t, k + 1, nodes)

(* result += std::to_string(step + 1) + ","; *)
TourStep(step) == <<to_string(step + 1), ",">>

RECURSIVE TourSteps(_, _)
TourSteps(t, k) ==
  IF k > Len(t) THEN <<>> ELSE TourStep(t[k]) \o TourSteps(t, k + 1)

get_route(ewt, nodes, t) ==
  LET routePart ==
        IF ewt # "NONE" /\ ewt # ExplicitType
        THEN PopBack(<<"\"route\":", "[">> \o RouteSteps(t, 1, nodes)) \o <<"]", ",">>
        ELSE <<>>
      tourPart == PopBack(routePart \o <<"\"tour\":", "[">> \o TourSteps(t, 1))
  IN  tourPart \o <<"]", ",">>

Tours(n) == UNION {[1 .. k -> Idx(n)] : k \in 0 .. MaxTour}

GetRoute ==
  /\ pc = "built"
  /\ \E t \in Tours(_dimension) :
       /\ tour' = t
       /\ route' = get_route(_ewt, _nodes, t)
  /\ UNCHANGED <<input, pc, error, _dimension, _ewt, _ewf, _data_section,
                 data_pos, _matrix, _nodes>>

----------------------------------------------------------------------------
(* The inputs. *)

Input(dim, ewt, ewf, ews, ncs) ==
  [dim |-> dim, ewt |-> ewt, ewf |-> ewf, ews |-> ews, ncs |-> ncs]

Digits(n) == [kind |-> "digits", n |-> n]

Seqs(S, maxlen) == UNION {[1 .. k -> S] : k \in 0 .. maxlen}

JunkPoint == <<Junk, Junk>>

(* Node lines "k x y" numbered from 1, over the points P, with lines that
   are not three numbers among them. *)
NodeLines(P, maxlen) ==
  {[k \in DOMAIN c |-> IF c[k] = JunkPoint THEN <<Junk, 0, 0>>
                       ELSE <<k, c[k][1], c[k][2]>>] :
     c \in Seqs(P \cup {JunkPoint}, maxlen)}

(* Well-formed headers of type EXPLICIT, every format, any tokens. *)
ExplicitInputs ==
  {Input(Digits(n), ExplicitType, f, Section(b), NoSection) :
     n \in 0 .. MaxDim, f \in SupportedFormats,
     b \in Seqs(Weights \cup {Junk}, MaxData)}

(* Well-formed headers of the coordinate types, any node lines. *)
CoordInputs ==
  UNION {{Input(Digits(n), t, NoKey, NoSection, Section(l)) :
            n \in 0 .. MaxDim, l \in NodeLines(Points(t), MaxNodes)} :
         t \in CoordTypes}

(* Two nodes anywhere on the grid, for the distance functions. *)
Grid == (0 .. MaxCoord) \X (0 .. MaxCoord)

GridInputs ==
  {Input(Digits(2), t, NoKey, NoSection,
         Section(<<<<1, p[1], p[2]>>, <<2, q[1], q[2]>>>>)) :
     t \in {"EUC_2D", "CEIL_2D", "ATT"}, p \in Grid, q \in Grid}

(* Every combination of header keys, over a few data sections. *)
DimTexts ==
  {[kind |-> "absent", n |-> 0], [kind |-> "word", n |-> 0]}
    \cup {Digits(n) : n \in 0 .. MaxDim}
EwtTexts == {NoKey, "euc", "EUC_3D", "MAN_2D"} \cup SupportedTypes
EwfTexts == {NoKey, "FUNCTION", "LOWER_ROW"} \cup SupportedFormats

HeaderInputs ==
  {Input(d, t, f, e, c) :
     d \in DimTexts, t \in EwtTexts, f \in EwfTexts,
     e \in {NoSection, Section(<<>>), Section(<<10, 15, 20, 10>>)},
     c \in {NoSection, Section(<<>>), Section(<<<<1, 0, 0>>, <<2, 1, 0>>>>)}}

(* Instances whose tours get_route renders. *)
RouteInputs ==
  {Input(Digits(n), ExplicitType, "UPPER_ROW", Section(<<10, 15, 20>>), NoSection) :
     n \in 0 .. MaxDim}
    \cup {Input(Digits(Len(l)), "EUC_2D", NoKey, NoSection, Section(l)) :
            l \in {x \in NodeLines(SamplePoints, MaxNodes) :
                     \A k \in DOMAIN x : x[k][1] # Junk}}

InitWith(inputs) ==
  /\ input \in inputs
  /\ pc = "start"
  /\ error = ""
  /\ _dimension = 0
  /\ _ewt = "NONE"
  /\ _ewf = "NONE"
  /\ _data_section = <<>>
  /\ data_pos = 0
  /\ _matrix = MatrixInit(0)
  /\ _nodes = <<>>
  /\ tour = <<>>
  /\ route = <<>>

Init == InitWith(ExplicitInputs \cup CoordInputs)
InitHeader == InitWith(HeaderInputs)
InitDist == InitWith(GridInputs \cup CoordInputs)
InitRoute == InitWith(RouteInputs)

Next == Construct
NextRoute == Construct \/ GetRoute

Spec == Init /\ [][Next]_vars
SpecHeader == InitHeader /\ [][Next]_vars
SpecDist == InitDist /\ [][Next]_vars
SpecRoute == InitRoute /\ [][NextRoute]_vars

----------------------------------------------------------------------------
(* The properties. Their vocabulary is defined here from the statements, not
   from the definitions above. *)

Built == pc = "built"
Failed == pc = "failed"
Returned == pc # "start"

Entry(i, j) == _matrix[<<i, j>>]

Symmetric == \A i, j \in Idx(_dimension) : Entry(i, j) = Entry(j, i)
ZeroOnDiagonal == \A i \in Idx(_dimension) : Entry(i, i) = 0

(* The section the type reads, and the numbers it holds. *)
SectionRead == IF input.ewt = ExplicitType THEN input.ews ELSE input.ncs
IsNumber(tok) == IF input.ewt = ExplicitType THEN tok # Junk ELSE tok[1] # Junk
NumbersHeld == Cardinality({k \in DOMAIN SectionRead.body : IsNumber(SectionRead.body[k])})
LeadingNumbers ==
  CHOOSE k \in 0 .. Len(SectionRead.body) :
    /\ \A l \in 1 .. k : IsNumber(SectionRead.body[l])
    /\ k < Len(SectionRead.body) => ~IsNumber(SectionRead.body[k + 1])

(* What the header implies: edge weights, or node lines. *)
Implied ==
  LET n == input.dim.n
  IN  IF input.ewt # ExplicitType THEN n
      ELSE CASE input.ewf = "FULL_MATRIX" -> n * n
             [] input.ewf = "UPPER_ROW" -> (n * (n - 1)) \div 2
             [] OTHER -> (n * (n + 1)) \div 2

(* All the numbers the header implies are there, and nothing but numbers. *)
DataComplete == NumbersHeld = Len(SectionRead.body) /\ NumbersHeld >= Implied

(* C1: the matrix of every instance the constructor accepts is symmetric
   with a zero diagonal, FULL_MATRIX inputs with differing (i,j) and (j,i)
   values included. Stated for the instances that give all their data, where
   every entry comes from the input. *)
C1_MatrixSymmetric == (Built /\ DataComplete) => Symmetric /\ ZeroOnDiagonal

(* C2: when the data section holds fewer numbers than the header implies,
   the constructor fails and produces no matrix. *)
C2_ShortDataRejected ==
  (Returned /\ NumbersHeld < Implied) => Failed /\ _matrix = <<>>

(* The pairs a format lists, row-major, and the place of a pair in them. *)
Listed(ewf, n) ==
  CASE ewf = "FULL_MATRIX" -> Idx(n) \X Idx(n)
    [] ewf = "UPPER_ROW" -> {p \in Idx(n) \X Idx(n) : p[1] < p[2]}
    [] ewf = "UPPER_DIAG_ROW" -> {p \in Idx(n) \X Idx(n) : p[1] <= p[2]}
    [] ewf = "LOWER_DIAG_ROW" -> {p \in Idx(n) \X Idx(n) : p[2] <= p[1]}
RowMajorBefore(p, q) == p[1] < q[1] \/ (p[1] = q[1] /\ p[2] < q[2])
Place(ewf, n, p) ==
  1 + Cardinality({q \in Listed(ewf, n) : RowMajorBefore(q, p)})
(* The listed pair that decides entry (i, j). *)
Deciding(ewf, i, j) ==
  CASE ewf = "FULL_MATRIX" -> <<i, j>>
    [] ewf = "LOWER_DIAG_ROW" -> IF i < j THEN <<j, i>> ELSE <<i, j>>
    [] OTHER -> IF i < j THEN <<i, j>> ELSE <<j, i>>
ReferenceFill(ewf, n, values) ==
  [p \in Idx(n) \X Idx(n) |->
     IF p[1] = p[2] THEN 0
     ELSE values[Place(ewf, n, Deciding(ewf, p[1], p[2]))]]

(* C3: for an EXPLICIT instance whose data section starts with at least the
   implied number of integers, the loader consumes exactly that many and the
   matrix is the reference fill of the format: the k-th value at the k-th
   listed pair, mirrored for the triangular formats, diagonal zero. *)
C3_ExplicitReferenceFill ==
  (Built /\ _ewt = ExplicitType /\ LeadingNumbers >= Implied) =>
     /\ data_pos = Implied
     /\ _matrix = ReferenceFill(_ewf, _dimension, input.ews.body)

C3_Witness ==
  /\ Built
  /\ input.ewf = "UPPER_ROW"
  /\ input.dim.n = 3
  /\ input.ews.body = <<10, 15, 20, 10>>
  /\ data_pos = 3
  /\ _matrix = (<<0, 0>> :> 0 @@ <<0, 1>> :> 10 @@ <<0, 2>> :> 15 @@
                <<1, 0>> :> 10 @@ <<1, 1>> :> 0 @@ <<1, 2>> :> 20 @@
                <<2, 0>> :> 15 @@ <<2, 1>> :> 20 @@ <<2, 2>> :> 0)

(* The header errors of C4, read off the input. *)
HeaderError ==
  \/ input.dim.kind # "digits"
  \/ input.ewt \notin {"EXPLICIT", "EUC_2D", "CEIL_2D", "GEO", "ATT"}
  \/ /\ input.ewt = "EXPLICIT"
     /\ input.ewf \notin {"FULL_MATRIX", "UPPER_ROW", "UPPER_DIAG_ROW", "LOWER_DIAG_ROW"}
  \/ ~SectionRead.present

(* C4: the constructor fails, leaving no loader or matrix, when DIMENSION is
   missing or not an integer, the type is missing or unsupported, the type
   is EXPLICIT and the format is missing or unsupported, or the section the
   type reads is absent; a missing or unsupported format is no error for a
   coordinate type. *)
C4_HeaderErrorsRejected ==
  Returned =>
    /\ HeaderError => Failed /\ error # "" /\ _matrix = <<>> /\ _nodes = <<>>
    /\ (/\ ~HeaderError
        /\ input.ewt # "EXPLICIT"
        /\ LeadingNumbers >= 1) => Built

C4_Witness ==
  /\ Failed
  /\ input.dim.kind = "digits"
  /\ input.ewt = "EXPLICIT"
  /\ input.ewf = "LOWER_ROW"
  /\ LeadingNumbers >= 1
  /\ error = "unsupported \"EDGE_WEIGHT_FORMAT\" value: LOWER_ROW."

(* C5: a non-numeric token anywhere in the data section makes the
   constructor fail; stated for the case the claim singles out, a token that
   follows one or more numbers and comes before the implied count is read. *)
C5_NonNumericRejected ==
  (/\ Returned
   /\ LeadingNumbers >= 1
   /\ LeadingNumbers < Implied
   /\ LeadingNumbers < Len(SectionRead.body)) => Failed

(* C6: DIMENSION: 0 is rejected for every type and format, and the UPPER_ROW
   loop never runs under a wrapped-around bound. *)
C6_DimensionZeroRejected ==
  /\ (Returned /\ input.dim.kind = "digits" /\ input.dim.n = 0) => Failed
  /\ (Built /\ _ewf = "UPPER_ROW") => UpperRowBound(_dimension) < _dimension

(* A "key":[e1,e2,...] array, and its place in a string. *)
RECURSIVE Joined(_)
Joined(elems) ==
  IF elems = <<>> THEN <<>>
  ELSE IF Len(elems) = 1 THEN elems[1]
  ELSE elems[1] \o <<",">> \o Joined(Tail(elems))
ArrayOf(key, elems) == <<key, "[">> \o Joined(elems) \o <<"]">>
Holds(str, part) ==
  \E at \in 0 .. (Len(str) - Len(part)) : SubSeq(str, at + 1, at + Len(part)) = part
HasKey(str, key) == \E k \in DOMAIN str : str[k] = key
Ranks(t) == [p \in DOMAIN t |-> <<ToString(t[p] + 1)>>]
Pairs(t) ==
  [p \in DOMAIN t |->
     <<"[", ToString(_nodes[t[p] + 1].x) \o ".000000", ",",
            ToString(_nodes[t[p] + 1].y) \o ".000000", "]">>]
Called == route # <<>>

(* C7: for every tour of k >= 0 indices, the output of get_route holds a
   well-formed "tour" array of the k ranks tour[p] + 1 in order, and a
   "route" array of the k [x,y] pairs exactly when the instance is
   coordinate-based. *)
C7_RouteWellFormed ==
  Called =>
    /\ Holds(route, ArrayOf("\"tour\":", Ranks(tour)))
    /\ HasKey(route, "\"route\":") <=> (_ewt # "EXPLICIT")
    /\ (_ewt # "EXPLICIT") => Holds(route, ArrayOf("\"route\":", Pairs(tour)))

(* The squared length between nodes i and j of the instance. *)
S(i, j) ==
  (_nodes[i + 1].x - _nodes[j + 1].x) * (_nodes[i + 1].x - _nodes[j + 1].x)
    + (_nodes[i + 1].y - _nodes[j + 1].y) * (_nodes[i + 1].y - _nodes[j + 1].y)
OffDiagonal == {p \in Idx(_dimension) \X Idx(_dimension) : p[1] # p[2]}
(* (int)(x + 0.5) and floor(x + 0.5) at x = the root nint is applied to. *)
CastIsFloor(x) == nint(x) = (2 * x + Scale) \div (2 * Scale)

(* C8 as stated: every off-diagonal entry of an EUC_2D instance (all of its
   nodes given, with whole coordinates) is the
   integer d >= 0 with (2d-1)^2 <= 4s < (2d+1)^2, and the cast agrees with
   floor on every value nint is applied to. *)
C8_EucNearestInteger ==
  (Built /\ _ewt = "EUC_2D" /\ DataComplete) =>
    \A p \in OffDiagonal :
      LET d == Entry(p[1], p[2])
          s == S(p[1], p[2])
      IN  /\ d >= 0
          /\ (2 * d - 1) * (2 * d - 1) <= 4 * s
          /\ 4 * s < (2 * d + 1) * (2 * d + 1)
          /\ CastIsFloor(SqrtFx(s, 1))

(* C8 as amended: d = floor(sqrt(s) + 0.5), that is 4s < (2d+1)^2 and, when
   d >= 1, (2d-1)^2 <= 4s; coincident nodes (s = 0) are at distance 0. *)
C8_EucRoundHalfUp ==
  (Built /\ _ewt = "EUC_2D" /\ DataComplete) =>
    \A p \in OffDiagonal :
      LET d == Entry(p[1], p[2])
          s == S(p[1], p[2])
      IN  /\ d >= 0
          /\ d >= 1 => (2 * d - 1) * (2 * d - 1) <= 4 * s
          /\ 4 * s < (2 * d + 1) * (2 * d + 1)
          /\ CastIsFloor(SqrtFx(s, 1))

C8_Witness ==
  /\ Built
  /\ _ewt = "EUC_2D"
  /\ _nodes = <<Node(1, 0, 0), Node(2, 3, 4), Node(3, 6, 0)>>
  /\ _matrix = (<<0, 0>> :> 0 @@ <<0, 1>> :> 5 @@ <<0, 2>> :> 6 @@
                <<1, 0>> :> 5 @@ <<1, 1>> :> 0 @@ <<1, 2>> :> 5 @@
                <<2, 0>> :> 6 @@ <<2, 1>> :> 5 @@ <<2, 2>> :> 0)

(* C9: every off-diagonal entry of an ATT instance (all of its nodes given,
   with whole coordinates) is t+1 if t < r else t,
   for r = sqrt(s/10) and t = nint(r); it is the least integer d >= 0 with
   10 d^2 >= s, so it is never below r and less than 1 above it. *)
C9_AttLeastInteger ==
  (Built /\ _ewt = "ATT" /\ DataComplete) =>
    \A p \in OffDiagonal :
      LET d == Entry(p[1], p[2])
          s == S(p[1], p[2])
      IN  /\ d >= 0
          /\ 10 * d * d >= s
          /\ d >= 1 => 10 * (d - 1) * (d - 1) < s
          /\ \E t \in 0 .. d :
               /\ t >= 1 => 10 * (2 * t - 1) * (2 * t - 1) <= 4 * s
               /\ 4 * s < 10 * (2 * t + 1) * (2 * t + 1)
               /\ d = IF 10 * t * t < s THEN t + 1 ELSE t

C9_Witness ==
  /\ Built
  /\ _ewt = "ATT"
  /\ _nodes = <<Node(1, 0, 0), Node(2, 1, 0)>>
  /\ Entry(0, 1) = 1

(* C10: with N >= 1, the triangular formats and the coordinate types give a
   symmetric matrix with zero diagonal whatever the data section holds, too
   short or with non-zero diagonal values; FULL_MATRIX alone takes m[i][j]
   and m[j][i] from two input values. *)
C10_MirrorPathsSymmetric ==
  /\ (/\ Built
      /\ _dimension >= 1
      /\ (_ewt # "EXPLICIT" \/ _ewf \in {"UPPER_ROW", "UPPER_DIAG_ROW", "LOWER_DIAG_ROW"}))
       => Symmetric /\ ZeroOnDiagonal
  /\ (Built /\ _ewf = "FULL_MATRIX" /\ LeadingNumbers >= Implied) =>
       \A p \in OffDiagonal :
         Entry(p[1], p[2]) = input.ews.body[p[1] * _dimension + p[2] + 1]

C10_Witness ==
  /\ Built
  /\ _dimension = 3
  /\ _ewf = "UPPER_DIAG_ROW"
  /\ input.ews.body = <<10, 15>>
  /\ Entry(1, 2) = 15
  /\ Entry(2, 1) = 15

=============================================================================
